---- MODULE Spec2Model ----
(***************************************************************************)
(* prompt-to-proof: the evaluation run (src/run.ts), the attestation chain *)
(* builder (attest.ts) and the chain verifier (src/verify.ts).             *)
(*                                                                         *)
(* JSON objects are sequences of <<key, value>> pairs in insertion order.  *)
(* Texts (prompts, completions, code) are sequences of tokens.  A sha256   *)
(* digest is the pair <<"sha256", input>>: distinct inputs give distinct   *)
(* digests.  The JSON null is <<"null">> and the string "none" is          *)
(* <<"none">>, so every value a hash may be compared with is a tuple.      *)
(***************************************************************************)
EXTENDS Integers, Sequences, FiniteSets, TLC

\* ------------------------------------------------------------------ bounds
MaxTasks == 2
MaxK == 3
MaxLog == 3
MaxFields == 2

\* ------------------------------------------------------------- primitives
Null == <<"null">>
NoneStr == <<"none">>

\* crypto.createHash("sha256").update(s).digest("hex")
sha256(s) == <<"sha256", s>>

\* run.ts: const hash = (s) => sha256 hex of s
hash(s) == sha256(s)

\* Array.prototype.sort() order of the keys the program writes
KeyOrder ==
  <<"code_sha256", "dataset_sha256", "hash", "idx", "input", "model", "output",
    "pass", "prevHash", "prompt_sha256", "run_id", "task_id", "timestamp",
    "tokens">>

\* the keys whose value is itself an object (typeof obj === "object")
ObjectKeys == {"tokens"}

KeyRank(k) == CHOOSE i \in 1..Len(KeyOrder) : KeyOrder[i] = k

Keys(o) == {o[i][1] : i \in 1..Len(o)}

Has(o, k) == k \in Keys(o)

Get(o, k) == o[CHOOSE i \in 1..Len(o) : o[i][1] = k][2]

\* { ...o, k: v }: an existing key keeps its position, a new key goes last
Put(o, k, v) ==
  IF Has(o, k)
  THEN [i \in 1..Len(o) |-> IF o[i][1] = k THEN <<k, v>> ELSE o[i]]
  ELSE Append(o, <<k, v>>)

\* const { k1, k2, ...rest } = o
RECURSIVE Omit(_, _)
Omit(o, ks) ==
  IF o = <<>> THEN <<>>
  ELSE IF Head(o)[1] \in ks THEN Omit(Tail(o), ks)
       ELSE <<Head(o)>> \o Omit(Tail(o), ks)

\* Object.keys(obj).sort(): the pair p put at its place in the sorted pairs s
RECURSIVE InsertByKey(_, _)
InsertByKey(p, s) ==
  IF s = <<>> THEN <<p>>
  ELSE IF KeyRank(p[1]) < KeyRank(Head(s)[1]) THEN <<p>> \o s
       ELSE <<Head(s)>> \o InsertByKey(p, Tail(s))

\* attest.ts sortObj: a primitive is returned as it is; the keys of an object are
\* sorted and acc[k] = sortObj(obj[k])
RECURSIVE sortObj(_)
sortObj(obj) ==
  IF obj = <<>> THEN <<>>
  ELSE LET k == Head(obj)[1]
           v == Head(obj)[2]
       IN InsertByKey(<<k, IF k \in ObjectKeys THEN sortObj(v) ELSE v>>,
                      sortObj(Tail(obj)))

\* mutant: the object is serialised in insertion order
stableUnsorted(o) == o

\* attest.ts stable = JSON.stringify(sortObj(o)): the text lists the pairs in key
\* order
stable(o) == sortObj(o)

\* verify.ts sortObj, the verifier's own copy
RECURSIVE sortObjV(_)
sortObjV(obj) ==
  IF obj = <<>> THEN <<>>
  ELSE LET k == Head(obj)[1]
           v == Head(obj)[2]
       IN InsertByKey(<<k, IF k \in ObjectKeys THEN sortObjV(v) ELSE v>>,
                      sortObjV(Tail(obj)))

\* verify.ts stable = JSON.stringify(sortObj(o))
stableV(o) == sortObjV(o)

\* ------------------------------------------------------------ attest.ts
\* mutant: the digest covers the record alone, the link to the predecessor is left out
contentToHashNoPrev(rec, prevHash) == stable(rec)

\* contentToHash = stable({ ...rec, prevHash })
contentToHash(rec, prevHash) == stable(Put(rec, "prevHash", prevHash))

\* mutant: idx is part of what the digest covers
ChainLineHashesIdx(rec, prevHash, idx) ==
  Put(Put(Put(rec, "idx", idx), "prevHash", prevHash),
      "hash", sha256(stable(Put(Put(rec, "idx", idx), "prevHash", prevHash))))

\* line = { ...rec, idx, prevHash, hash }
ChainLine(rec, prevHash, idx) ==
  Put(Put(Put(rec, "idx", idx), "prevHash", prevHash),
      "hash", sha256(contentToHash(rec, prevHash)))

\* appendRecord returns the hash
appendHash(rec, prevHash) == sha256(contentToHash(rec, prevHash))

\* mutant: the file is rewritten with the new line alone
writeFileTruncating(f, rec, prevHash, idx) == <<ChainLine(rec, prevHash, idx)>>

\* fs.appendFileSync(path, JSON.stringify(line) + "\n")
appendFile(f, rec, prevHash, idx) == Append(f, ChainLine(rec, prevHash, idx))

\* ------------------------------------------------------- run.ts: inputs
\* process.env: MODEL, SEED; runId = String(Date.now())
MODEL == "m1"
SeedEnv == <<42>>
runId == "r1"

\* data/tasks.json: record i of the dataset ({id, prompt, tests})
TaskTests(i) ==
  IF i % 3 = 1 THEN <<"eq">>
  ELSE IF i % 3 = 2 THEN <<"eq", "triv">>
  ELSE <<"triv">>

Task(i) ==
  [id |-> i, prompt |-> [j \in 1..i |-> "w"], tests |-> TaskTests(i)]

Dataset(n) == [i \in 1..n |-> Task(i)]

\* what may be wrong with a record of the dataset file
DefectKinds == {"no_id", "no_prompt", "no_tests", "empty_tests"}

\* record i of the dataset with one defect
DefectiveTask(i, kind) ==
  CASE kind = "no_id" -> [prompt |-> Task(i).prompt, tests |-> Task(i).tests]
    [] kind = "no_prompt" -> [id |-> Task(i).id, tests |-> Task(i).tests]
    [] kind = "no_tests" -> [id |-> Task(i).id, prompt |-> Task(i).prompt]
    [] kind = "empty_tests" -> [Task(i) EXCEPT !.tests = <<>>]

\* a dataset file of n records, record j defective
BadDataset(n, j, kind) ==
  [i \in 1..n |-> IF i = j THEN DefectiveTask(i, kind) ELSE Task(i)]

\* a dataset file whose last task has an empty tests array
EmptyTests(n) == BadDataset(n, n, "empty_tests")

\* mutant: the tests array may be empty
tasksSchemaNoMin(ts) ==
  \A j \in 1..Len(ts) : {"id", "prompt", "tests"} \subseteq DOMAIN ts[j]

\* tasksSchema.parse: an array of {id, prompt, tests}, tests with at least one
\* element; parse throws on anything else
tasksSchema(ts) ==
  \A j \in 1..Len(ts) :
    /\ {"id", "prompt", "tests"} \subseteq DOMAIN ts[j]
    /\ Len(ts[j].tests) >= 1

\* Number(process.env.K_ATTEMPTS) of a text that is no number: NaN, kept apart
\* from every number the model uses
NaN == -99

\* mutant: the body of the attempt loop runs at least once
moreAttemptsDoWhile(a, k) == a = 0 \/ a < k

\* a < K_ATTEMPTS, false when K_ATTEMPTS is NaN
moreAttempts(a, k) == k # NaN /\ a < k

\* process.env.EVAL_TEMPERATURE / EVAL_TOP_P, in hundredths; Unset: not defined
Unset == -1
Envs ==
  { [EVAL_TEMPERATURE |-> Unset, EVAL_TOP_P |-> Unset],
    [EVAL_TEMPERATURE |-> 120, EVAL_TOP_P |-> 50] }

\* mutant: the configured sampling values are used whatever k is
EVAL_TEMPERATURE_Env(k, e) ==
  IF e.EVAL_TEMPERATURE = Unset THEN 70 ELSE e.EVAL_TEMPERATURE

\* K_ATTEMPTS === 1 ? 0 : Number(process.env.EVAL_TEMPERATURE ?? 0.7), in hundredths
EVAL_TEMPERATURE(k, e) ==
  IF k = 1 THEN 0
  ELSE IF e.EVAL_TEMPERATURE = Unset THEN 70 ELSE e.EVAL_TEMPERATURE

\* K_ATTEMPTS === 1 ? 1 : Number(process.env.EVAL_TOP_P ?? 0.95), in hundredths
EVAL_TOP_P(k, e) ==
  IF k = 1 THEN 100
  ELSE IF e.EVAL_TOP_P = Unset THEN 95 ELSE e.EVAL_TOP_P

\* the request body chat builds: model, sampling, max_tokens, the user prompt,
\* and the seed when one is given
NoBody == <<>>
RequestBody(k, e, userPrompt, seed) ==
  << [model |-> MODEL,
      temperature |-> EVAL_TEMPERATURE(k, e),
      top_p |-> EVAL_TOP_P(k, e),
      max_tokens |-> 256,
      prompt |-> userPrompt,
      seed |-> seed] >>

\* seed = process.env.SEED ? Number(process.env.SEED) + a : undefined
seedOf(a) == IF SeedEnv = <<>> THEN Null ELSE <<SeedEnv[1] + a>>

\* datasetRaw: the text of data/tasks.json
datasetRaw(ts) == [i \in 1..Len(ts) |-> ts[i].id]

\* what the generation endpoint may answer: {content, latency_ms}
Replies ==
  { [content |-> <<"FENCE", "js", "ws", "good", "ws", "FENCE">>, latency_ms |-> 3],
    [content |-> <<"ws", "bad", "ws">>, latency_ms |-> 5],
    [content |-> <<"FENCE", "FENCE">>, latency_ms |-> 2] }

\* replies of a model that also writes code that never returns: "spin" in the
\* function the tests call, "later" in a promise job
HangingReplies ==
  { [content |-> <<"FENCE", "js", "ws", "good", "ws", "FENCE">>, latency_ms |-> 3],
    [content |-> <<"ws", "spin", "ws">>, latency_ms |-> 4],
    [content |-> <<"ws", "later", "ws">>, latency_ms |-> 6] }

\* the models a run is made with, each given by the replies it can make
Generators == {Replies, HangingReplies}

\* new Date().toISOString(): logical time, the steps the run has completed
now(taskPos, calls) == taskPos + calls

\* ----------------------------------------------------- run.ts: helpers
RECURSIVE TrimLeft(_)
TrimLeft(s) ==
  IF s # <<>> /\ Head(s) = "ws" THEN TrimLeft(Tail(s)) ELSE s

RECURSIVE TrimRight(_)
TrimRight(s) ==
  IF s # <<>> /\ s[Len(s)] = "ws" THEN TrimRight(SubSeq(s, 1, Len(s) - 1)) ELSE s

trim(s) == TrimRight(TrimLeft(s))

\* the first fenced block (optional js/javascript tag, then whitespace, then the
\* shortest text up to the next fence), else the whole text; trimmed
extractCode(md) ==
  LET fences == {i \in 1..Len(md) : md[i] = "FENCE"}
  IN IF Cardinality(fences) < 2 THEN trim(md)
     ELSE LET f1 == CHOOSE i \in fences : \A j \in fences : i <= j
              f2 == CHOOSE i \in fences \ {f1} : \A j \in fences \ {f1} : i <= j
              inner == SubSeq(md, f1 + 1, f2 - 1)
              body == IF inner # <<>> /\ Head(inner) \in {"js", "javascript"}
                      THEN Tail(inner) ELSE inner
          IN trim(body)

\* enc.encode(text).length
tokenCount(text) == Len(text)

InSeq(x, s) == \E i \in 1..Len(s) : s[i] = x

\* const ctx = { console: { log } }: the globals of a context that ran no code;
\* solve is the function the tests call
FreshCtx == [solve |-> "undefined"]

\* mutant: the context object is kept between calls
newContextReused(prev) == prev

\* vm.createContext(ctx) on a new object; prev is the context the call before left
newContext(prev) == FreshCtx

\* new vm.Script(code).runInContext(ctx): the code defines its globals in ctx.
\* "spin" defines a solve that never returns; "later" defines nothing and
\* queues a promise job that never returns.
loadCode(code, ctx) ==
  IF InSeq("good", code) THEN [ctx EXCEPT !.solve = "good"]
  ELSE IF InSeq("bad", code) THEN [ctx EXCEPT !.solve = "bad"]
  ELSE IF InSeq("spin", code) THEN [ctx EXCEPT !.solve = "spin"]
  ELSE ctx

\* the code queues a promise job: vm.createContext(ctx) is called without
\* microtaskMode, so the job goes to the queue of the running program
queuesJob(code) == InSeq("later", code)

\* new vm.Script(testExpr).runInContext(ctx); Boolean(result): "true" / "false",
\* "throw" when the test calls a function no code defined, or "hang" when the
\* function it calls never returns.  "triv" is a test expression that does not
\* use the code.
evalTest(testExpr, ctx) ==
  IF testExpr = "triv" THEN "true"
  ELSE IF ctx.solve = "good" THEN "true"
  ELSE IF ctx.solve = "bad" THEN "false"
  ELSE IF ctx.solve = "spin" THEN "hang"
  ELSE "throw"

\* mutant: the scripts run without a time limit
noTimeLimit(outcome) == outcome

\* runInContext(ctx, { timeout: 1000 }): a script still running after the limit
\* is interrupted and an Error is thrown
timeLimit(outcome) == IF outcome = "hang" THEN "throw" ELSE outcome

\* the context a call leaves behind
sandboxCtx(code, prev) == loadCode(code, newContext(prev))

\* runInSandbox called after a call that left the context prev
runInSandboxFrom(code, testExpr, prev) ==
  timeLimit(evalTest(testExpr, sandboxCtx(code, prev)))

\* runInSandbox(code, testExpr) when no call was made before
runInSandbox(code, testExpr) == runInSandboxFrom(code, testExpr, FreshCtx)

\* mutant: the call is not wrapped in try/catch
uncaught(outcome) == outcome

\* try { ok = runInSandbox(code, test) } catch { ok = false }
caught(outcome) == IF outcome = "throw" THEN "false" ELSE outcome

\* try { ok = runInSandbox(code, test) } catch { ok = false }
sandboxOk(code, test) == caught(runInSandbox(code, test)) = "true"

\* ------------------------------------------------------------------ state
VARIABLES
  K_ATTEMPTS, tasks, env, generator,
  pc, ti, a, attempts, solved, chosenCode, firstAttemptPass,
  code, latency_ms, testIdx, allPass, verdicts,
  results, pass1, passk, totalInputTokens, totalOutputTokens, totalLatencyMs,
  prevHash, idx, file, summary,
  chatCalls, sandboxCalls, codes, hist,
  lastCtx, executed, queued,
  chatErrors, body, inFlight,
  objA, objB, prevIn, lineA, lineB, digA, digB, digV, digW,
  tamper,
  vpc, lines, i, vPrevHash, out

config == <<K_ATTEMPTS, tasks, env, generator>>
taskLocals == <<attempts, solved, chosenCode, firstAttemptPass>>
attemptLocals == <<code, latency_ms, testIdx, allPass, verdicts>>
totals == <<pass1, passk, totalInputTokens, totalOutputTokens, totalLatencyMs>>
chain == <<prevHash, idx, file>>
\* history, not program state: the calls made so far, the code extracted at each
\* attempt of the current task, and per finished task what its attempts were
history == <<chatCalls, sandboxCalls, codes, hist>>

\* the context the latest executor call left (garbage to the program), the
\* executor calls made so far with their outcomes, and whether executed code
\* left a promise job in the program's queue
sandboxVars == <<lastCtx, executed, queued>>

\* the generation calls that failed so far, the body of the latest request, and
\* the generation calls sent and not yet settled
requestVars == <<chatErrors, body, inFlight>>

\* canonical hashing on its own: two objects and a previous hash, the lines the
\* builder makes of them, the hashes it returns and the verifier's digests of
\* the two lines
hashVars == <<objA, objB, prevIn, lineA, lineB, digA, digB, digV, digW>>

verifyVars == <<vpc, lines, i, vPrevHash, out>>

runVars == <<config, pc, ti, a, taskLocals, attemptLocals, results, totals,
             chain, summary, history, sandboxVars, requestVars>>

\* ------------------------------------------------------- run.ts: the run
\* module start: the counters, the empty chain, the first task not yet begun
RunInit ==
  /\ pc = "load"
  /\ ti = 1
  /\ a = 0
  /\ attempts = <<>>
  /\ solved = FALSE
  /\ chosenCode = <<>>
  /\ firstAttemptPass = FALSE
  /\ code = <<>>
  /\ latency_ms = 0
  /\ testIdx = 1
  /\ allPass = TRUE
  /\ verdicts = <<>>
  /\ results = <<>>
  /\ pass1 = 0
  /\ passk = 0
  /\ totalInputTokens = 0
  /\ totalOutputTokens = 0
  /\ totalLatencyMs = 0
  /\ prevHash = Null
  /\ idx = 0
  /\ file = <<>>
  /\ summary = <<>>
  /\ chatCalls = 0
  /\ sandboxCalls = 0
  /\ codes = <<>>
  /\ hist = <<>>
  /\ lastCtx = FreshCtx
  /\ executed = {}
  /\ queued = FALSE
  /\ chatErrors = 0
  /\ body = NoBody
  /\ inFlight = 0

\* const tasks = tasksSchema.parse(JSON.parse(datasetRaw)): a dataset the schema
\* rejects ends the process before the chain file is created
LoadDataset ==
  /\ pc = "load"
  /\ pc' = IF tasksSchema(tasks) THEN "task" ELSE "rejected"
  /\ UNCHANGED <<hashVars, requestVars, sandboxVars, tamper, verifyVars, config, ti, a, taskLocals,
                 attemptLocals, results, totals, chain, summary, history>>

\* mutant: the loop stops one task early
allTasksDoneEarly(pos, n) == pos >= n

\* for (const t of tasks) has no element left
allTasksDone(pos, n) == pos > n

\* for (const t of tasks) { attempts = []; solved = false; chosenCode = ""; ... }
BeginTask ==
  /\ pc = "task"
  /\ ~allTasksDone(ti, Len(tasks))
  /\ attempts' = <<>>
  /\ solved' = FALSE
  /\ chosenCode' = <<>>
  /\ firstAttemptPass' = FALSE
  /\ a' = 0
  /\ codes' = <<>>
  /\ pc' = "attempt"
  /\ UNCHANGED <<hashVars, requestVars, sandboxVars, tamper, verifyVars, config, ti, attemptLocals, results, totals, chain, summary,
                 chatCalls, sandboxCalls, hist>>

\* mutant: the latency of the latest attempt replaces the total
totalLatencyLast(total, l) == l

\* totalLatencyMs += latency_ms
totalLatencyAfter(total, l) == total + l

\* mutant: the loop goes on without waiting for the call to settle
notAwaited(at) == at

\* await chat(...): the loop is suspended until the call settles
awaited(at) == "await"

\* the program yields at an await: the queued promise jobs run before anything
\* else, and a job that never returns keeps the program from going on
yields(jobQueued, next) == IF jobQueued THEN "hung" ELSE next

\* a < K_ATTEMPTS; chat(t.prompt, seed) builds the body and sends the request
ChatSend ==
  /\ pc = "attempt"
  /\ moreAttempts(a, K_ATTEMPTS)
  /\ chatCalls' = chatCalls + 1
  /\ body' = RequestBody(K_ATTEMPTS, env, tasks[ti].prompt, seedOf(a))
  /\ inFlight' = inFlight + 1
  /\ pc' = yields(queued, awaited(pc))
  /\ UNCHANGED <<hashVars, chatErrors, sandboxVars, tamper, verifyVars, config, ti, a,
                 taskLocals, attemptLocals, results, totals, chain, summary,
                 sandboxCalls, codes, hist>>

\* await chat(t.prompt, seed) returns; extractCode; token counts
Chat ==
  /\ pc = "await"
  /\ inFlight > 0
  /\ \E reply \in generator :
       LET c == extractCode(reply.content)
       IN /\ code' = c
          /\ latency_ms' = reply.latency_ms
          /\ totalInputTokens' = totalInputTokens + tokenCount(tasks[ti].prompt)
          /\ totalOutputTokens' = totalOutputTokens + tokenCount(c)
          /\ totalLatencyMs' = totalLatencyAfter(totalLatencyMs, reply.latency_ms)
          /\ codes' = Append(codes, c)
  /\ allPass' = TRUE
  /\ verdicts' = <<>>
  /\ testIdx' = 1
  /\ inFlight' = inFlight - 1
  /\ pc' = "test"
  /\ UNCHANGED <<hashVars, chatErrors, body, chatCalls, sandboxVars, tamper, verifyVars,
                 config, ti, a, taskLocals, results, pass1, passk, chain, summary,
                 sandboxCalls, hist>>

\* mutant: the failed call is made again
onChatErrorRetry(at) == at

\* throw new Error(...) in chat, await chat(...) outside any try: the process ends
onChatError(at) == "aborted"

\* chat throws (fetch rejects, or !res.ok): nothing catches it, the process ends
ChatError ==
  /\ pc = "await"
  /\ inFlight > 0
  /\ chatErrors' = chatErrors + 1
  /\ inFlight' = inFlight - 1
  /\ pc' = onChatError(pc)
  /\ UNCHANGED <<hashVars, body, chatCalls, sandboxVars, tamper, verifyVars, config, ti,
                 a, taskLocals, attemptLocals, results, totals, chain, summary,
                 sandboxCalls, codes, hist>>

\* mutant: the verdict of the latest test alone decides the attempt
allPassLastOnly(ok, before) == ok

\* if (!ok) allPass = false
allPassAfter(ok, before) == IF ~ok THEN FALSE ELSE before

\* for (const test of t.tests): one sandbox call, its verdict pushed
RunTest ==
  /\ pc = "test"
  /\ testIdx <= Len(tasks[ti].tests)
  /\ LET test == tasks[ti].tests[testIdx]
         raw == runInSandboxFrom(code, test, lastCtx)
         outcome == caught(raw)
         ok == (outcome = "true")
     IN /\ lastCtx' = sandboxCtx(code, lastCtx)
        /\ executed' = executed \cup {[code |-> code, test |-> test, result |-> raw]}
        /\ queued' = (queued \/ queuesJob(code))
        /\ sandboxCalls' = sandboxCalls + 1
        /\ IF outcome \in {"throw", "hang"}
           THEN \* an exception nothing catches ends the process; a script
                \* nothing interrupts never returns
                /\ pc' = IF outcome = "throw" THEN "aborted" ELSE "hung"
                /\ UNCHANGED <<verdicts, allPass, testIdx>>
           ELSE /\ verdicts' = Append(verdicts, [test |-> test, pass |-> ok])
                /\ allPass' = allPassAfter(ok, allPass)
                /\ testIdx' = testIdx + 1
                /\ pc' = pc
  /\ UNCHANGED <<hashVars, requestVars, tamper, verifyVars, config, ti, a, taskLocals, code,
                 latency_ms, results, totals, chain, summary, chatCalls, codes, hist>>

\* mutant: any passing attempt counts as a first-attempt pass
firstPassAnyAttempt(attemptNo, passed, before) ==
  IF passed THEN TRUE ELSE before

\* mutant: the first attempt is taken to be number 1, not 0
firstPassOffByOne(attemptNo, passed, before) ==
  IF attemptNo = 1 /\ passed THEN TRUE ELSE before

\* if (a === 0 && allPass) firstAttemptPass = true
firstPassAfter(attemptNo, passed, before) ==
  IF attemptNo = 0 /\ passed THEN TRUE ELSE before

\* mutant: a passing attempt does not end the attempt loop
breaksNever(passed) == FALSE

\* if (allPass) { solved = true; chosenCode = code; break; }
breaksLoop(passed) == passed

\* attempts.push({...}); firstAttemptPass; then break or the next attempt
EndAttempt ==
  /\ pc = "test"
  /\ testIdx > Len(tasks[ti].tests)
  /\ attempts' = Append(attempts,
       [idx |-> a + 1,
        seed |-> seedOf(a),
        latency_ms |-> latency_ms,
        tokens |-> [input |-> tokenCount(tasks[ti].prompt),
                    output |-> tokenCount(code)],
        pass |-> allPass])
  /\ firstAttemptPass' = firstPassAfter(a, allPass, firstAttemptPass)
  /\ IF breaksLoop(allPass)
     THEN /\ solved' = TRUE
          /\ chosenCode' = code
          /\ a' = a
          /\ pc' = "finish"
     ELSE /\ UNCHANGED <<solved, chosenCode>>
          /\ a' = a + 1
          /\ pc' = "attempt"
  /\ UNCHANGED <<hashVars, requestVars, sandboxVars, tamper, verifyVars, config, ti, attemptLocals, results, totals,
                 chain, summary, history>>

\* code_sha256: chosenCode ? hash(chosenCode) : "none"
code_sha256(chosen) == IF chosen # <<>> THEN hash(chosen) ELSE NoneStr

\* if (firstAttemptPass) pass1++
pass1After(first, n) == IF first THEN n + 1 ELSE n

\* mutant: the pass@k counter is never incremented
passkStuck(isSolved, n) == n

\* if (solved) passk++
passkAfter(isSolved, n) == IF isSolved THEN n + 1 ELSE n

\* mutant: the verdict written to the chain is always false
AttestationNeverPass(t, chosen, isSolved, ts) ==
  << <<"run_id", runId>>,
     <<"task_id", t.id>>,
     <<"model", MODEL>>,
     <<"dataset_sha256", hash(datasetRaw(tasks))>>,
     <<"prompt_sha256", hash(t.prompt)>>,
     <<"code_sha256", code_sha256(chosen)>>,
     <<"pass", FALSE>>,
     <<"timestamp", ts>> >>

\* the record run.ts hands to appendRecord
Attestation(t, chosen, isSolved, ts) ==
  << <<"run_id", runId>>,
     <<"task_id", t.id>>,
     <<"model", MODEL>>,
     <<"dataset_sha256", hash(datasetRaw(tasks))>>,
     <<"prompt_sha256", hash(t.prompt)>>,
     <<"code_sha256", code_sha256(chosen)>>,
     <<"pass", isSolved>>,
     <<"timestamp", ts>> >>

\* mutant: the returned hash is dropped
prevHashKept(returned, before) == before

\* prevHash = appendRecord(...): the returned hash is the next call's prevHash
prevHashAfter(returned, before) == returned

\* after the attempt loop: pass1++ / passk++, results.push, appendRecord, idx++
FinishTask ==
  /\ \/ pc = "finish"
     \/ pc = "attempt" /\ ~moreAttempts(a, K_ATTEMPTS)
  /\ pass1' = pass1After(firstAttemptPass, pass1)
  /\ passk' = passkAfter(solved, passk)
  /\ results' = Append(results,
       [id |-> tasks[ti].id,
        prompt_sha256 |-> hash(tasks[ti].prompt),
        pass1 |-> firstAttemptPass,
        passk |-> solved,
        attempts |-> attempts])
  /\ LET rec == Attestation(tasks[ti], chosenCode, solved, now(ti, chatCalls))
     IN /\ file' = appendFile(file, rec, prevHash, idx)
        /\ prevHash' = prevHashAfter(appendHash(rec, prevHash), prevHash)
  /\ idx' = idx + 1
  /\ hist' = Append(hist, [codes |-> codes])
  /\ ti' = ti + 1
  /\ pc' = "task"
  /\ UNCHANGED <<hashVars, requestVars, sandboxVars, tamper, verifyVars, config, a, taskLocals, attemptLocals, totalInputTokens,
                 totalOutputTokens, totalLatencyMs, summary, chatCalls,
                 sandboxCalls, codes>>

\* after the task loop: the summary is built and written
WriteSummary ==
  /\ pc = "task"
  /\ allTasksDone(ti, Len(tasks))
  /\ summary' = Append(summary,
                    [run_id |-> runId,
                    model |-> MODEL,
                    sampling |-> [temperature |-> EVAL_TEMPERATURE(K_ATTEMPTS, env),
                                  top_p |-> EVAL_TOP_P(K_ATTEMPTS, env)],
                    dataset_sha256 |-> hash(datasetRaw(tasks)),
                    k |-> K_ATTEMPTS,
                    totals |-> [pass1 |-> pass1,
                                passk |-> passk,
                                total |-> Len(tasks),
                                latency_ms |-> totalLatencyMs,
                                tokens |-> [input |-> totalInputTokens,
                                            output |-> totalOutputTokens,
                                            total |-> totalInputTokens
                                                        + totalOutputTokens]],
                    results |-> results])
  /\ pc' = "done"
  /\ UNCHANGED <<hashVars, requestVars, sandboxVars, tamper, verifyVars, config, ti, a, taskLocals, attemptLocals, results, totals,
                 chain, history>>

\* --------------------------------------------------- edits of the log file
\* what was done to the file after the run: nothing, or one edit at position pos
NoTamper == [kind |-> "none", pos |-> 0, field |-> ""]

Hashes(f) == {Get(f[j], "hash") : j \in 1..Len(f)}

\* the values an editor may put in field k of line o, other than the one it holds
MutValues(f, o, k) ==
  LET v == Get(o, k)
  IN CASE k = "pass" -> {~v}
       [] k = "idx" -> {v + 1, 0} \ {v}
       [] k = "task_id" -> {v + 1}
       [] k = "timestamp" -> {v + 1}
       [] k = "run_id" -> {"rX"}
       [] k = "model" -> {"mX"}
       [] k = "dataset_sha256" -> {hash(<<>>)} \ {v}
       [] k = "prompt_sha256" -> {hash(<<>>)} \ {v}
       [] k = "code_sha256" -> {NoneStr, hash(<<"evil">>)} \ {v}
       [] k = "prevHash" -> ({Null} \cup Hashes(f)) \ {v}
       [] k = "hash" -> ({sha256(<<>>)} \cup Hashes(f)) \ {v}

SetField(f, p, k, v) == [f EXCEPT ![p] = Put(f[p], k, v)]

DeleteAt(f, p) == SubSeq(f, 1, p - 1) \o SubSeq(f, p + 1, Len(f))

InsertAt(f, q, line) == SubSeq(f, 1, q - 1) \o <<line>> \o SubSeq(f, q, Len(f))

\* the permutations of 1..n
Perms(n) == {f \in [1..n -> 1..n] : \A x, y \in 1..n : x # y => f[x] # f[y]}

\* the first place a permutation other than the identity moves
FirstMoved(f, n) == CHOOSE j \in 1..n : f[j] # j /\ \A k \in 1..(j - 1) : f[k] = k

\* one field of one line is given another value (pos is the 0-based position)
TamperField ==
  /\ pc \in {"done", "aborted"}
  /\ vpc = "idle"
  /\ tamper = NoTamper
  /\ \E p \in 1..Len(file) :
       \E k \in Keys(file[p]) :
         \E v \in MutValues(file, file[p], k) :
           /\ file' = SetField(file, p, k, v)
           /\ tamper' = [kind |-> "field", pos |-> p - 1, field |-> k]
  /\ UNCHANGED <<hashVars, requestVars, sandboxVars, config, pc, ti, a, taskLocals, attemptLocals, results, totals,
                 prevHash, idx, summary, history, vpc, lines, i, vPrevHash, out>>

\* one line is removed from the file
TamperDelete ==
  /\ pc \in {"done", "aborted"}
  /\ vpc = "idle"
  /\ tamper = NoTamper
  /\ \E p \in 1..Len(file) :
       /\ file' = DeleteAt(file, p)
       /\ tamper' = [kind |-> "delete", pos |-> p - 1, field |-> ""]
  /\ UNCHANGED <<hashVars, requestVars, sandboxVars, config, pc, ti, a, taskLocals, attemptLocals, results, totals,
                 prevHash, idx, summary, history, vpc, lines, i, vPrevHash, out>>

\* the file is cut after its first m lines
TamperTruncate ==
  /\ pc \in {"done", "aborted"}
  /\ vpc = "idle"
  /\ tamper = NoTamper
  /\ \E m \in 0..(Len(file) - 1) :
       /\ file' = SubSeq(file, 1, m)
       /\ tamper' = [kind |-> "truncate", pos |-> m, field |-> ""]
  /\ UNCHANGED <<hashVars, requestVars, sandboxVars, config, pc, ti, a, taskLocals,
                 attemptLocals, results, totals, prevHash, idx, summary, history,
                 vpc, lines, i, vPrevHash, out>>

\* the lines are put in another order (pos: the first line that is not the
\* original one, 0-based)
TamperReorder ==
  /\ pc \in {"done", "aborted"}
  /\ vpc = "idle"
  /\ tamper = NoTamper
  /\ \E f \in Perms(Len(file)) :
       /\ \E j \in 1..Len(file) : f[j] # j
       /\ file' = [j \in 1..Len(file) |-> file[f[j]]]
       /\ tamper' = [kind |-> "reorder", pos |-> FirstMoved(f, Len(file)) - 1,
                     field |-> ""]
  /\ UNCHANGED <<hashVars, requestVars, sandboxVars, config, pc, ti, a, taskLocals,
                 attemptLocals, results, totals, prevHash, idx, summary, history,
                 vpc, lines, i, vPrevHash, out>>

\* a copy of line p is inserted as line q (q = p gives the same file as
\* q = p + 1)
TamperDuplicate ==
  /\ pc \in {"done", "aborted"}
  /\ vpc = "idle"
  /\ tamper = NoTamper
  /\ \E p \in 1..Len(file) :
       \E q \in (1..(Len(file) + 1)) \ {p} :
         /\ file' = InsertAt(file, q, file[p])
         /\ tamper' = [kind |-> "duplicate", pos |-> q - 1, field |-> ""]
  /\ UNCHANGED <<hashVars, requestVars, sandboxVars, config, pc, ti, a, taskLocals,
                 attemptLocals, results, totals, prevHash, idx, summary, history,
                 vpc, lines, i, vPrevHash, out>>

\* ------------------------------------------------------------- verify.ts
NoOut == [kind |-> "", idx |-> -1, count |-> -1]

\* fs.readFileSync(file).trim().split("\n").filter(Boolean): the non-empty lines
readLines(f) == f

\* mutant: the destructuring also takes pass out of the hashed fields
restDropsPass(line) == Omit(line, {"hash", "idx", "prevHash", "pass"})

\* const { hash, idx, prevHash: declaredPrev, ...rest } = line
rest(line) == Omit(line, {"hash", "idx", "prevHash"})

\* mutant: the stored digest is taken on trust instead of being recomputed
recomputedStored(line, prev) == Get(line, "hash")

\* sha256(stable({ ...rest, prevHash }))
recomputed(line, prev) == sha256(stableV(Put(rest(line), "prevHash", prev)))

\* mutant: the link to the line before is not looked at
chainBreakIgnored(declaredPrev, prev) == FALSE

\* if (declaredPrev !== prevHash)
chainBreak(declaredPrev, prev) == declaredPrev # prev

\* mutant: the count printed is one more than the lines read
okCountPlusOne(ls) == Len(ls) + 1

\* `Attestation OK (${lines.length} records)`
okCount(ls) == Len(ls)

\* verify.ts is started on the log of a run that has ended
VerifyStart ==
  /\ pc \in {"done", "aborted"}
  /\ vpc = "idle"
  /\ lines' = readLines(file)
  /\ vPrevHash' = Null
  /\ i' = 0
  /\ vpc' = "loop"
  /\ UNCHANGED <<hashVars, runVars, tamper, out>>

\* one iteration of for (let i = 0; i < lines.length; i++)
VerifyStep ==
  /\ vpc = "loop"
  /\ i < Len(lines)
  /\ LET line == lines[i + 1]
     IN IF chainBreak(Get(line, "prevHash"), vPrevHash)
        THEN /\ out' = [kind |-> "ChainBreak", idx |-> Get(line, "idx"), count |-> -1]
             /\ vpc' = "exit1"
             /\ UNCHANGED <<i, vPrevHash>>
        ELSE IF recomputed(line, vPrevHash) # Get(line, "hash")
        THEN /\ out' = [kind |-> "HashMismatch", idx |-> Get(line, "idx"), count |-> -1]
             /\ vpc' = "exit1"
             /\ UNCHANGED <<i, vPrevHash>>
        ELSE /\ vPrevHash' = Get(line, "hash")
             /\ i' = i + 1
             /\ UNCHANGED <<vpc, out>>
  /\ UNCHANGED <<hashVars, runVars, tamper, lines>>

\* the loop ends: console.log(`Attestation OK (${lines.length} records)`)
VerifyOk ==
  /\ vpc = "loop"
  /\ i >= Len(lines)
  /\ out' = [kind |-> "OK", idx |-> -1, count |-> okCount(lines)]
  /\ vpc' = "exit0"
  /\ UNCHANGED <<hashVars, runVars, tamper, lines, i, vPrevHash>>

\* ------------------------------------------------------- specifications
vars == <<runVars, tamper, verifyVars, hashVars>>

NoDigest == <<"nodigest">>

\* no hashing on its own is going on
HashIdle ==
  /\ objA = <<>>
  /\ objB = <<>>
  /\ prevIn = Null
  /\ lineA = <<>>
  /\ lineB = <<>>
  /\ digA = NoDigest
  /\ digB = NoDigest
  /\ digV = NoDigest
  /\ digW = NoDigest

VerifyInit ==
  /\ tamper = NoTamper
  /\ vpc = "idle"
  /\ lines = <<>>
  /\ i = 0
  /\ vPrevHash = Null
  /\ out = NoOut

\* K_ATTEMPTS = Number(process.env.K_ATTEMPTS ?? 1); tasks = the parsed dataset
Init ==
  /\ K_ATTEMPTS \in {NaN} \cup (-1..MaxK)
  /\ tasks \in {Dataset(n) : n \in 0..MaxTasks}
              \cup {BadDataset(n, j, kind) :
                      n \in 1..MaxTasks, j \in 1..MaxTasks, kind \in DefectKinds}
  /\ env \in Envs
  /\ generator \in Generators
  /\ RunInit
  /\ VerifyInit
  /\ HashIdle

\* a run, then the verifier on the log it left
Next ==
  \/ LoadDataset
  \/ BeginTask
  \/ ChatSend
  \/ Chat
  \/ ChatError
  \/ RunTest
  \/ EndAttempt
  \/ FinishTask
  \/ WriteSummary
  \/ VerifyStart
  \/ VerifyStep
  \/ VerifyOk

Spec == Init /\ [][Next]_vars

\* a deterministic run (K_ATTEMPTS = 1) over up to MaxLog tasks, then at most one
\* edit of the log, then the verifier
AuditInit ==
  /\ K_ATTEMPTS = 1
  /\ tasks \in {Dataset(n) : n \in 0..MaxLog}
  /\ env \in Envs
  /\ generator = Replies
  /\ RunInit
  /\ VerifyInit
  /\ HashIdle

AuditNext ==
  \/ LoadDataset
  \/ BeginTask
  \/ ChatSend
  \/ Chat
  \/ ChatError
  \/ RunTest
  \/ EndAttempt
  \/ FinishTask
  \/ WriteSummary
  \/ TamperField
  \/ TamperDelete
  \/ TamperTruncate
  \/ TamperReorder
  \/ TamperDuplicate
  \/ VerifyStart
  \/ VerifyStep
  \/ VerifyOk

AuditSpec == AuditInit /\ [][AuditNext]_vars

\* ----------------------------------------- canonical hashing on its own
\* a nested mapping, its two keys inserted in either order
Tokens(swapped) ==
  IF swapped THEN << <<"output", 2>>, <<"input", 1>> >>
  ELSE << <<"input", 1>>, <<"output", 2>> >>

\* a record: the nested mapping and n of the attestation's fields
Fields(n, passed, swapped) ==
  SubSeq(<< <<"tokens", Tokens(swapped)>>, <<"task_id", 7>>, <<"pass", passed>>,
            <<"model", MODEL>>, <<"run_id", runId>> >>, 1, n + 1)

\* the record o with its fields inserted in the order f
Reordered(o, f) == [j \in 1..Len(o) |-> o[f[j]]]

\* the prevHash an append may be given: null, or the hash of an entry
PrevHashes == {Null, appendHash(Fields(0, FALSE, FALSE), Null)}

\* two records with the same fields and values, inserted in any two orders
HashInit ==
  /\ K_ATTEMPTS = 1
  /\ tasks = Dataset(0)
  /\ env = [EVAL_TEMPERATURE |-> Unset, EVAL_TOP_P |-> Unset]
  /\ generator = Replies
  /\ RunInit
  /\ VerifyInit
  /\ \E n \in 0..MaxFields, passed \in BOOLEAN, sa \in BOOLEAN, sb \in BOOLEAN :
       \E f \in Perms(n + 1), g \in Perms(n + 1) :
         /\ objA = Reordered(Fields(n, passed, sa), f)
         /\ objB = Reordered(Fields(n, passed, sb), g)
  /\ prevIn \in PrevHashes
  /\ lineA = <<>>
  /\ lineB = <<>>
  /\ digA = NoDigest
  /\ digB = NoDigest
  /\ digV = NoDigest
  /\ digW = NoDigest

\* appendRecord(path, rec, prevHash, idx) on each record, at any two idx: the
\* line written and the hash returned
HashBuild ==
  /\ digA = NoDigest
  /\ \E j \in 0..1, k \in 0..1 :
       /\ lineA' = ChainLine(objA, prevIn, j)
       /\ lineB' = ChainLine(objB, prevIn, k)
  /\ digA' = appendHash(objA, prevIn)
  /\ digB' = appendHash(objB, prevIn)
  /\ UNCHANGED <<runVars, tamper, verifyVars, objA, objB, prevIn, digV, digW>>

\* verify.ts on each parsed line, the hash before it being prevIn:
\* recomputed = sha256(stable({ ...rest, prevHash }))
HashVerify ==
  /\ Len(lineA) > 0
  /\ digV = NoDigest
  /\ digV' = recomputed(lineA, prevIn)
  /\ digW' = recomputed(lineB, prevIn)
  /\ UNCHANGED <<runVars, tamper, verifyVars, objA, objB, prevIn, lineA, lineB,
                 digA, digB>>

HashNext == HashBuild \/ HashVerify

HashSpec == HashInit /\ [][HashNext]_vars

\* ================================================================ claims
Exited == vpc \in {"exit0", "exit1"}

Failed == vpc = "exit1" /\ out.kind \in {"ChainBreak", "HashMismatch"}

RecordFields ==
  {"run_id", "task_id", "model", "dataset_sha256", "prompt_sha256",
   "code_sha256", "pass", "timestamp"}

\* C1: when a run with k >= 1 has completed over n tasks and verify has run on
\* the log it produced, verify has succeeded and reports n entries.
C1_VerifyAcceptsRunLog ==
  (pc = "done" /\ K_ATTEMPTS >= 1 /\ Exited)
    => (vpc = "exit0" /\ out.kind = "OK" /\ out.count = Len(tasks))

\* C1 witness: a completed 2-task run with one solved and one unsolved task,
\* verified with count 2
C1_Witness ==
  /\ pc = "done" /\ K_ATTEMPTS >= 1 /\ Len(tasks) = 2
  /\ results[1].passk /\ ~results[2].passk
  /\ vpc = "exit0" /\ out.count = 2

\* C2 (as stated): after any single-field edit of a valid log, idx included,
\* verify fails and reports the edited entry's index or a later one.
C2_AnyFieldEditDetected ==
  (tamper.kind = "field" /\ Exited)
    => (Failed /\ out.idx >= tamper.pos /\ i >= tamper.pos)

\* C2 (amended): after a single-field edit of any field other than idx, verify
\* fails and reports the edited entry's index or a later one, never an earlier one.
C2_NonIdxFieldEditDetected ==
  (tamper.kind = "field" /\ tamper.field # "idx" /\ Exited)
    => (Failed /\ out.idx >= tamper.pos /\ i >= tamper.pos)

\* C2 witness: the hash field of the middle entry of a 3-entry log was edited
\* and verify failed there
C2_Witness ==
  /\ tamper.kind = "field" /\ tamper.field = "hash" /\ tamper.pos = 1
  /\ Len(lines) = 3 /\ Failed /\ out.idx = 1

\* C3: a record-content field of entry i edited without recomputing the hash
\* makes verify report HashMismatch (not ChainBreak) at idx i.
C3_ContentEditIsHashMismatch ==
  (tamper.kind = "field" /\ tamper.field \in RecordFields /\ Exited)
    => (vpc = "exit1" /\ out.kind = "HashMismatch" /\ out.idx = tamper.pos)

\* C3 witness: 3-entry log, pass of entry 1 edited, HashMismatch at idx 1
C3_Witness ==
  /\ tamper = [kind |-> "field", pos |-> 1, field |-> "pass"]
  /\ Len(lines) = 3
  /\ vpc = "exit1" /\ out.kind = "HashMismatch" /\ out.idx = 1

\* C4 (as stated): entry i (not the last) deleted from a valid log makes verify
\* report ChainBreak at idx i, the position the former successor now holds.
C4_DeleteIsChainBreakAtPosition ==
  (tamper.kind = "delete" /\ tamper.pos < Len(lines) /\ Exited)
    => (vpc = "exit1" /\ out.kind = "ChainBreak" /\ out.idx = tamper.pos)

\* the two checks of entry j (0-based) of the lines verify read, stated on the
\* file alone
LinkOk(j) ==
  Get(lines[j + 1], "prevHash")
    = (IF j = 0 THEN Null ELSE Get(lines[j], "hash"))

ContentOk(j) ==
  Get(lines[j + 1], "hash")
    = sha256(stable(Put(Omit(lines[j + 1], {"hash", "idx", "prevHash"}),
                        "prevHash", Get(lines[j + 1], "prevHash"))))

EntryOk(j) == LinkOk(j) /\ ContentOk(j)

\* verify stops at the first entry failing a check, linkage before content
StopsAtFirstFailure ==
  /\ vpc = "exit0" => \A j \in 0..(Len(lines) - 1) : EntryOk(j)
  /\ vpc = "exit1" =>
       /\ i < Len(lines)
       /\ \A j \in 0..(i - 1) : EntryOk(j)
       /\ ~EntryOk(i)
       /\ out.kind = (IF ~LinkOk(i) THEN "ChainBreak" ELSE "HashMismatch")

\* C5 (as stated): verify is fail-fast: entries in file order, linkage before
\* content, it stops at the first failing entry and reports that earliest
\* position; success only if every entry passed both checks.
C5_FailFastReportsPosition ==
  /\ StopsAtFirstFailure
  /\ vpc = "exit1" => out.idx = i

\* what the code does instead: the index reported is the idx field stored in the
\* entry it stopped at
FailFastReportsStoredIdx ==
  /\ StopsAtFirstFailure
  /\ vpc = "exit1" => out.idx = Get(lines[i + 1], "idx")

\* the code extracted at the last attempt of finished task p
LastCode(p) == hist[p].codes[Len(hist[p].codes)]

\* C6 (as stated): the entry of every task carries the final verdict and the
\* digest of the final attempt's extracted code: the winning attempt's if one
\* passed, the last attempt's if none did.
C6_RecordCarriesFinalAttempt ==
  K_ATTEMPTS >= 1 =>
    \A p \in 1..Len(hist) :
      /\ Get(file[p], "pass") = results[p].passk
      /\ Get(file[p], "code_sha256") = hash(LastCode(p))

RECURSIVE SumAttempts(_)
SumAttempts(rs) ==
  IF rs = <<>> THEN 0 ELSE Len(Head(rs).attempts) + SumAttempts(Tail(rs))

RECURSIVE SumSandbox(_, _)
SumSandbox(rs, ts) ==
  IF rs = <<>> THEN 0
  ELSE Len(Head(rs).attempts) * Len(Head(ts).tests) + SumSandbox(Tail(rs), Tail(ts))

\* the attempts recorded for a finished task stop at the first pass, else at k
EarlyExitShape(p) ==
  LET at == results[p].attempts
      n == Len(at)
  IN /\ n >= 1 /\ n <= K_ATTEMPTS
     /\ \A j \in 1..n : at[j].idx = j
     /\ \A j \in 1..(n - 1) : ~at[j].pass
     /\ ~at[n].pass => n = K_ATTEMPTS
     /\ Len(hist[p].codes) = n

\* C7: for k >= 1 the attempts recorded for a task number the index of the first
\* passing attempt, or k if none passes; they are indexed 1..n; and once an
\* attempt has passed no generation call or sandbox execution is made for that task.
C7_EarlyExit ==
  /\ [](K_ATTEMPTS >= 1 =>
          /\ \A p \in 1..Len(results) : EarlyExitShape(p)
          /\ pc = "done" =>
               /\ chatCalls = SumAttempts(results)
               /\ sandboxCalls = SumSandbox(results, tasks))
  /\ [][solved => (chatCalls' = chatCalls /\ sandboxCalls' = sandboxCalls)]_vars

\* C7 witness: k = 3, attempts 1 and 2 fail, attempt 3 passes, 3 attempts recorded
C7_Witness ==
  /\ K_ATTEMPTS = 3
  /\ \E p \in 1..Len(results) :
       LET at == results[p].attempts
       IN /\ Len(at) = 3 /\ ~at[1].pass /\ ~at[2].pass /\ at[3].pass
          /\ ~results[p].pass1 /\ results[p].passk

\* C8: in every TaskResult pass1 holds iff the first recorded attempt passed, and
\* passk holds iff some recorded attempt passed, iff the loop exited early or the
\* last attempt passed.
C8_PassFlags ==
  \A p \in 1..Len(results) :
    LET at == results[p].attempts
        n == Len(at)
    IN /\ results[p].pass1 <=> (n >= 1 /\ at[1].pass)
       /\ results[p].passk <=> (\E j \in 1..n : at[j].pass)
       /\ results[p].passk <=> (n < K_ATTEMPTS \/ (n >= 1 /\ at[n].pass))

\* C8 witness: a task solved at its second attempt: pass1 false, passk true
C8_Witness ==
  \E p \in 1..Len(results) :
    /\ ~results[p].pass1 /\ results[p].passk
    /\ Len(results[p].attempts) = 2

\* C9: for k >= 1, at every point of the run and in the summary written,
\* totals.passk >= totals.pass1.
C9_PasskAtLeastPass1 ==
  K_ATTEMPTS >= 1 =>
    /\ passk >= pass1
    /\ summary # <<>> => summary[1].totals.passk >= summary[1].totals.pass1

\* C9 witness: a completed run whose summary has passk strictly above pass1 > 0
C9_Witness ==
  /\ pc = "done" /\ summary # <<>>
  /\ summary[1].totals.pass1 = 1 /\ summary[1].totals.passk = 2

\* C10: for k = 1, pass1 equals passk (in the counters and in the summary) and
\* every task has exactly one recorded attempt.
C10_KOneCountsAgree ==
  K_ATTEMPTS = 1 =>
    /\ pass1 = passk
    /\ \A p \in 1..Len(results) : Len(results[p].attempts) = 1
    /\ summary # <<>> => summary[1].totals.pass1 = summary[1].totals.passk

\* C10 witness: a completed k = 1 run over 2 tasks, one solved
C10_Witness ==
  /\ K_ATTEMPTS = 1 /\ pc = "done" /\ Len(tasks) = 2
  /\ summary # <<>> /\ summary[1].totals.pass1 = 1 /\ summary[1].totals.passk = 1

\* the executor returned true for every test of task p on code c
AllTestsTrue(p, c) ==
  \A t \in 1..Len(tasks[p].tests) : runInSandbox(c, tasks[p].tests[t]) = "true"

\* C11: an attempt is recorded as passing iff the executor returned true for
\* every test of the task; every test is executed on the extracted code, also
\* after a failed one, and one false verdict fails the attempt.
C11_AttemptPassesIffAllTests ==
  /\ pc = "test" =>
       /\ Len(verdicts) = testIdx - 1
       /\ \A j \in 1..Len(verdicts) :
            /\ verdicts[j].test = tasks[ti].tests[j]
            /\ verdicts[j].pass = (runInSandbox(code, tasks[ti].tests[j]) = "true")
       /\ allPass <=> (\A j \in 1..Len(verdicts) : verdicts[j].pass)
  /\ pc \in {"attempt", "await", "test", "finish"} =>
       \A j \in 1..Len(attempts) : attempts[j].pass <=> AllTestsTrue(ti, codes[j])
  /\ \A p \in 1..Len(results) :
       \A j \in 1..Len(results[p].attempts) :
         results[p].attempts[j].pass <=> AllTestsTrue(p, hist[p].codes[j])
  /\ pc = "done" => sandboxCalls = SumSandbox(results, tasks)

\* C11 witness: task 2 (tests eq, triv): the first test failed, the second was
\* still executed and passed, and the attempt is recorded as failed
C11_Witness ==
  /\ ti = 2 /\ pc = "attempt" /\ Len(attempts) >= 1
  /\ verdicts = <<[test |-> "eq", pass |-> FALSE], [test |-> "triv", pass |-> TRUE]>>
  /\ ~attempts[Len(attempts)].pass

\* the executor call about to be made raises an exception
ThrowingTest ==
  /\ pc = "test"
  /\ testIdx <= Len(tasks[ti].tests)
  /\ runInSandboxFrom(code, tasks[ti].tests[testIdx], lastCtx) = "throw"

\* C12: an exception raised in the executor is recorded as verdict false for that
\* test and the test loop goes on; the run is aborted by nothing but a failed
\* generation call; and every task that leaves its attempt loop, whatever its
\* tests raised, gets its chain entry in the same step.
C12_ExecutorFailsClosed ==
  /\ [][ThrowingTest =>
          /\ pc' = "test"
          /\ testIdx' = testIdx + 1
          /\ verdicts' = Append(verdicts, [test |-> tasks[ti].tests[testIdx],
                                           pass |-> FALSE])
          /\ allPass' = FALSE
          /\ file' = file]_vars
  /\ [](pc = "aborted" => chatErrors > 0)
  /\ [][(pc \in {"attempt", "finish"} /\ pc' \notin {"attempt", "await", "hung"}) =>
          /\ pc' = "task"
          /\ ti' = ti + 1
          /\ Len(file') = Len(file) + 1
          /\ Get(file'[Len(file')], "task_id") = tasks[ti].id]_vars

\* C12 witness: a completed 2-task run without transport error in which an
\* executor call raised an exception, both entries appended
C12_Witness ==
  /\ pc = "done" /\ Len(file) = 2 /\ chatErrors = 0
  /\ \E x \in executed : x.result = "throw"

C14_TransportErrorAborts ==
  /\ [](chatErrors > 0 =>
          /\ pc = "aborted"
          /\ chatErrors = 1
          /\ summary = <<>>
          /\ Len(file) = ti - 1
          /\ \A p \in 1..Len(file) :
               /\ Keys(file[p]) = RecordFields \cup {"idx", "prevHash", "hash"}
               /\ Get(file[p], "task_id") = tasks[p].id
          /\ Exited => (vpc = "exit0" /\ out.kind = "OK" /\ out.count = ti - 1))
  /\ [][chatErrors > 0 =>
          /\ chatCalls' = chatCalls
          /\ sandboxCalls' = sandboxCalls
          /\ file' = file]_vars

\* C14 witness: the generation call of the second task failed after the first
\* task was completed; verify accepted the log of one entry
C14_Witness ==
  /\ chatErrors = 1 /\ ti = 2 /\ Len(file) = 1
  /\ vpc = "exit0" /\ out.count = 1

\* C15: in every state of the log during a run, every entry has a prevHash field;
\* the first entry's is null; every later entry's is the hash field of the entry
\* before it; and the hash the run holds for the next append is the last entry's.
C15_PrevHashThreaded ==
  /\ \A p \in 1..Len(file) :
       /\ Has(file[p], "prevHash")
       /\ Has(file[p], "hash")
       /\ p = 1 => Get(file[p], "prevHash") = Null
       /\ p > 1 => /\ Get(file[p], "prevHash") = Get(file[p - 1], "hash")
                   /\ Get(file[p], "prevHash") # Null
  /\ prevHash = IF file = <<>> THEN Null ELSE Get(file[Len(file)], "hash")

\* C15 witness: a log of two entries while the run has not ended, the second
\* linked to the first
C15_Witness ==
  /\ pc = "task" /\ Len(file) = 2
  /\ Get(file[1], "prevHash") = Null
  /\ Get(file[2], "prevHash") = Get(file[1], "hash")

\* C16: the entry at position p (from 0) has idx p and is the entry of the p-th
\* task of the dataset, there is one entry per task processed so far, and every
\* step of the run leaves the log as it is or adds one entry at its end.
C16_AppendOnly ==
  /\ []( /\ \A p \in 1..Len(file) :
              /\ Get(file[p], "idx") = p - 1
              /\ Get(file[p], "task_id") = tasks[p].id
         /\ Len(file) = Len(results)
         /\ Len(file) = ti - 1
         /\ idx = Len(file))
  /\ [][ /\ Len(file') \in {Len(file), Len(file) + 1}
         /\ \A p \in 1..Len(file) : file'[p] = file[p]]_vars

\* C16 witness: the second task's entry was appended after the first one's
C16_Witness ==
  /\ Len(file) = 2 /\ idx = 2
  /\ Get(file[1], "idx") = 0 /\ Get(file[2], "idx") = 1
  /\ Get(file[2], "task_id") = tasks[2].id

\* C17: the summary is written at most once, by the step that follows the last
\* task's append; when it exists the run is complete, with one result and one
\* chain entry per task; a completed run has it; a run ended by an invalid dataset
\* or by a failed generation call has none.
C17_SummaryOnceAtEnd ==
  /\ []( /\ Len(summary) <= 1
         /\ summary # <<>> =>
              /\ pc = "done"
              /\ tasksSchema(tasks) /\ chatErrors = 0
              /\ Len(results) = Len(tasks)
              /\ Len(file) = Len(tasks)
              /\ summary[1].results = results
         /\ pc = "done" => Len(summary) = 1
         /\ pc \in {"aborted", "rejected"} => summary = <<>>
         /\ ~tasksSchema(tasks) => (summary = <<>> /\ file = <<>>))
  /\ [][summary' # summary =>
          /\ summary = <<>>
          /\ pc = "task" /\ pc' = "done"
          /\ ti = Len(tasks) + 1
          /\ file' = file]_vars

\* C17 witness: a completed run over two tasks with its one summary
C17_Witness ==
  /\ pc = "done" /\ Len(tasks) = 2 /\ Len(summary) = 1
  /\ Len(summary[1].results) = 2 /\ Len(file) = 2

RECURSIVE SumSeq(_)
SumSeq(ns) == IF ns = <<>> THEN 0 ELSE Head(ns) + SumSeq(Tail(ns))

SumOver(at, f(_)) == SumSeq([j \in 1..Len(at) |-> f(at[j])])

attLatency(x) == x.latency_ms
attInput(x) == x.tokens.input
attOutput(x) == x.tokens.output
resLatency(r) == SumOver(r.attempts, attLatency)
resInput(r) == SumOver(r.attempts, attInput)
resOutput(r) == SumOver(r.attempts, attOutput)
resPass1(r) == IF r.pass1 THEN 1 ELSE 0
resPassk(r) == IF r.passk THEN 1 ELSE 0

\* C18: between tasks and at the end of the run the latency and token totals are
\* the sums over every recorded attempt of every task result, pass1 and passk
\* count the results with the flag set; the summary carries these totals, the
\* token total is input + output and totals.total is the number of tasks.
C18_TotalsAreSums ==
  /\ pc \in {"task", "done"} =>
       /\ totalLatencyMs = SumOver(results, resLatency)
       /\ totalInputTokens = SumOver(results, resInput)
       /\ totalOutputTokens = SumOver(results, resOutput)
       /\ pass1 = SumOver(results, resPass1)
       /\ passk = SumOver(results, resPassk)
  /\ summary # <<>> =>
       LET t == summary[1].totals
           rs == summary[1].results
       IN /\ t.latency_ms = SumOver(rs, resLatency)
          /\ t.tokens.input = SumOver(rs, resInput)
          /\ t.tokens.output = SumOver(rs, resOutput)
          /\ t.tokens.total = t.tokens.input + t.tokens.output
          /\ t.pass1 = SumOver(rs, resPass1)
          /\ t.passk = SumOver(rs, resPassk)
          /\ t.total = Len(tasks)
          /\ Len(rs) = Len(tasks)

\* C18 witness: a summary whose totals include a failed attempt: task 1 was
\* solved at its second attempt
C18_Witness ==
  /\ summary # <<>> /\ Len(tasks) = 2
  /\ Len(results[1].attempts) = 2
  /\ ~results[1].attempts[1].pass /\ results[1].attempts[2].pass
  /\ summary[1].totals.latency_ms > resLatency(results[1])

\* C19: with k = 1 every request carries temperature 0 and top_p 1 whatever the
\* environment configures; a request carries other values only when k > 1, and
\* then they are the configured values, or the defaults where none is configured.
C19_KOneIsDeterministic ==
  body # NoBody =>
    /\ K_ATTEMPTS = 1 => (body[1].temperature = 0 /\ body[1].top_p = 100)
    /\ (body[1].temperature # 0 \/ body[1].top_p # 100) => K_ATTEMPTS > 1
    /\ K_ATTEMPTS > 1 =>
         /\ body[1].temperature =
              IF env.EVAL_TEMPERATURE = Unset THEN 70 ELSE env.EVAL_TEMPERATURE
         /\ body[1].top_p = IF env.EVAL_TOP_P = Unset THEN 95 ELSE env.EVAL_TOP_P

\* C19 witness: a k = 1 run whose environment sets both sampling values has sent
\* a request
C19_Witness ==
  /\ K_ATTEMPTS = 1 /\ env.EVAL_TEMPERATURE = 120 /\ env.EVAL_TOP_P = 50
  /\ body # NoBody /\ chatCalls = 2
  /\ body[1].temperature = 0 /\ body[1].top_p = 100

\* C20: two records with the same fields and values, inserted in different orders
\* at the top level and inside the nested mapping, get the same digest from the
\* builder, and the verifier recomputes from the written line the digest the
\* builder stored in it.
C20_HashIgnoresKeyOrder ==
  /\ digA # NoDigest =>
       /\ digA = digB
       /\ Get(lineA, "hash") = digA
  /\ digV # NoDigest =>
       /\ digV = digA
       /\ digV = Get(lineA, "hash")

\* C20 witness: the two records differ in the order of their fields and in the
\* order inside the nested mapping, and all digests were computed
C20_Witness ==
  /\ Len(objA) = 3
  /\ objA[1][1] # objB[1][1]
  /\ Get(objA, "tokens") # Get(objB, "tokens")
  /\ digA # NoDigest /\ digV # NoDigest
  /\ digA = digB /\ digV = digA

\* a record of the dataset lacks id, prompt, or a non-empty tests sequence
Defective(ts) ==
  \E j \in 1..Len(ts) :
    \/ "id" \notin DOMAIN ts[j]
    \/ "prompt" \notin DOMAIN ts[j]
    \/ "tests" \notin DOMAIN ts[j]
    \/ ts[j].tests = <<>>

\* C21: when a record of the dataset lacks id, prompt or a non-empty tests
\* sequence, the run ends at the load: no generation call, no sandbox execution,
\* no task result, no chain entry and no summary, for any task.
C21_BadDatasetRejected ==
  Defective(tasks) =>
    /\ pc \in {"load", "rejected"}
    /\ chatCalls = 0
    /\ sandboxCalls = 0
    /\ results = <<>>
    /\ file = <<>>
    /\ summary = <<>>
    /\ vpc = "idle"

\* C21 witness: a dataset whose first record is valid and whose second has no
\* test was rejected
C21_Witness ==
  /\ pc = "rejected" /\ Len(tasks) = 2
  /\ ~Defective(<<tasks[1]>>)
  /\ "tests" \in DOMAIN tasks[2]
  /\ tasks[2].tests = <<>>

\* C22: the hash of an entry is the same whatever idx the append is given, it is
\* the hash the append returns, it changes with the prevHash, and the verifier
\* recomputes it from the line with idx and hash taken out and prevHash put in.
C22_HashCoversRecordAndPrev ==
  /\ Len(lineA) > 0 =>
       /\ Get(lineA, "hash") = Get(lineB, "hash")
       /\ Get(lineA, "hash") = digA
       /\ Get(lineB, "hash") = digB
       /\ Get(lineA, "prevHash") = prevIn
       /\ \A p \in PrevHashes \ {prevIn} : appendHash(objA, p) # digA
  /\ digV # NoDigest =>
       /\ digV = Get(lineA, "hash")
       /\ digW = Get(lineB, "hash")
       /\ digV = sha256(stableV(Put(Omit(lineA, {"idx", "hash"}), "prevHash", prevIn)))

\* C22 witness: the same record appended at idx 0 and at idx 1 after an entry,
\* both lines verified
C22_Witness ==
  /\ Len(objA) = 3
  /\ prevIn # Null
  /\ Len(lineA) > 0
  /\ Get(lineA, "idx") = 0 /\ Get(lineB, "idx") = 1
  /\ digV # NoDigest /\ digW # NoDigest
  /\ digV = digW

\* C24: when a valid log is cut after its first m entries, verify accepts it and
\* reports m entries; a log cut to nothing, or empty from the start, is accepted
\* with count 0.
C24_TruncationAccepted ==
  /\ (tamper.kind = "truncate" /\ Exited) =>
       /\ Len(lines) = tamper.pos
       /\ vpc = "exit0" /\ out.kind = "OK" /\ out.count = tamper.pos
  /\ (tamper = NoTamper /\ file = <<>> /\ Exited) =>
       (vpc = "exit0" /\ out.kind = "OK" /\ out.count = 0)

\* C24 witness: a log of three entries cut to its first one was accepted
C24_Witness ==
  /\ tamper.kind = "truncate" /\ tamper.pos = 1 /\ Len(results) = 3
  /\ vpc = "exit0" /\ out.count = 1

\* C25: a valid log whose entries are reordered, or into which a copy of an
\* entry is inserted, is rejected by verify with ChainBreak, and verify stops at
\* the first position at which the log is not the original one.
C25_ReorderDuplicateIsChainBreak ==
  /\ []((tamper.kind \in {"reorder", "duplicate"} /\ Exited) =>
          /\ vpc = "exit1"
          /\ out.kind = "ChainBreak"
          /\ i = tamper.pos)
  /\ [][(tamper = NoTamper /\ tamper'.kind \in {"reorder", "duplicate"}) =>
          /\ \A j \in 1..tamper'.pos : file'[j] = file[j]
          /\ tamper'.pos < Len(file')
          /\ tamper'.pos < Len(file) => file'[tamper'.pos + 1] # file[tamper'.pos + 1]]_vars

\* C25 witness: the last two of three entries were swapped and verify stopped at
\* the second line
C25_Witness ==
  /\ tamper.kind = "reorder" /\ tamper.pos = 1 /\ Len(lines) = 3
  /\ vpc = "exit1" /\ out.kind = "ChainBreak" /\ i = 1

\* C26: in a completed run the i-th log entry and the i-th result of the summary
\* are about the same task (same id, same prompt hash), the entry's pass is the
\* result's passk, and the entries with pass = true number totals.passk.
C26_LogMatchesSummary ==
  pc = "done" =>
    LET rs == summary[1].results
    IN /\ Len(file) = Len(rs)
       /\ \A p \in 1..Len(file) :
            /\ Get(file[p], "task_id") = rs[p].id
            /\ Get(file[p], "prompt_sha256") = rs[p].prompt_sha256
            /\ Get(file[p], "pass") = rs[p].passk
            /\ Get(file[p], "run_id") = summary[1].run_id
            /\ Get(file[p], "dataset_sha256") = summary[1].dataset_sha256
       /\ Cardinality({p \in 1..Len(file) : Get(file[p], "pass")})
            = summary[1].totals.passk

\* C26 witness: a completed run whose first task was solved and whose second
\* was not
C26_Witness ==
  /\ pc = "done" /\ Len(file) = 2
  /\ Get(file[1], "pass") /\ ~Get(file[2], "pass")
  /\ summary[1].totals.passk = 1
  /\ summary[1].results[1].passk /\ ~summary[1].results[2].passk

\* C27: when k is 0, negative or not a number, no generation call and no sandbox
\* execution is made and the run is never aborted; every task processed has a
\* result with no attempt, pass1 = false and passk = false and a chain entry with
\* pass = false; the completed run has one entry per task and verify accepts its
\* log with that count.
C27_KBelowOne ==
  (K_ATTEMPTS = NaN \/ K_ATTEMPTS < 1) =>
    /\ chatCalls = 0
    /\ sandboxCalls = 0
    /\ pc # "aborted"
    /\ Len(file) = Len(results)
    /\ \A p \in 1..Len(results) :
         /\ results[p].id = tasks[p].id
         /\ results[p].attempts = <<>>
         /\ ~results[p].pass1
         /\ ~results[p].passk
         /\ Get(file[p], "task_id") = tasks[p].id
         /\ Get(file[p], "pass") = FALSE
    /\ pc = "done" => (Len(file) = Len(tasks) /\ Len(summary) = 1)
    /\ Exited => (vpc = "exit0" /\ out.kind = "OK" /\ out.count = Len(tasks))

\* C27 witness: a run with k not a number over two tasks, its log of two entries
\* accepted
C27_Witness ==
  /\ K_ATTEMPTS = NaN /\ Len(tasks) = 2 /\ pc = "done"
  /\ Len(file) = 2 /\ ~Get(file[2], "pass")
  /\ vpc = "exit0" /\ out.count = 2

\* C23: at most one generation call is in flight, and only while the loop waits
\* for it; a sandbox execution runs, and an entry is appended, only when no call
\* is in flight; no step does two of these; the call of an attempt of the task at
\* position i is sent when the log holds the entries of the i tasks before it;
\* and the entry of a task is appended when all its attempts have finished.
C23_Serialized ==
  /\ [](inFlight \in {0, 1} /\ (inFlight = 1 <=> pc \in {"await", "hung"}))
  /\ [][sandboxCalls' # sandboxCalls =>
          /\ inFlight = 0 /\ inFlight' = 0
          /\ sandboxCalls' = sandboxCalls + 1
          /\ chatCalls' = chatCalls
          /\ file' = file]_vars
  /\ [][chatCalls' # chatCalls =>
          /\ inFlight = 0
          /\ chatCalls' = chatCalls + 1
          /\ sandboxCalls' = sandboxCalls
          /\ Len(file) = ti - 1
          /\ file' = file]_vars
  /\ [][file' # file =>
          /\ inFlight = 0 /\ inFlight' = 0
          /\ chatCalls' = chatCalls
          /\ sandboxCalls' = sandboxCalls
          /\ Len(attempts) = Len(codes)
          /\ \/ solved
             \/ K_ATTEMPTS = NaN
             \/ Len(attempts) >= K_ATTEMPTS
          /\ Len(file') = ti
          /\ Get(file'[ti], "task_id") = tasks[ti].id]_vars

\* C23 witness: the call of the second attempt of the second task is in flight,
\* the first task's entry being in the log
C23_Witness ==
  /\ pc = "await" /\ inFlight = 1
  /\ ti = 2 /\ a = 1 /\ Len(attempts) = 1
  /\ Len(file) = 1

\* the positions at which a run has ended
Final == {"done", "aborted", "rejected"}

\* the attempts a task can take
AttemptsBound == IF K_ATTEMPTS = NaN \/ K_ATTEMPTS < 0 THEN 0 ELSE K_ATTEMPTS

\* the steps of one attempt are at most: send, return, one per test, push
AttemptSteps ==
  3 + SumSeq([j \in 1..Len(tasks) |->
                IF "tests" \in DOMAIN tasks[j] THEN Len(tasks[j].tests) ELSE 0])

\* the steps of one task are at most: begin, its attempts, append
TaskSteps == AttemptsBound * AttemptSteps + 2

\* the steps left once the task at position pos is finished: the later tasks
\* and the summary
After(pos) == (Len(tasks) - pos) * TaskSteps + 1

\* a bound on the steps the run can still take
Rank ==
  CASE pc = "load" -> 1 + After(0)
    [] pc = "task" -> After(ti - 1)
    [] pc = "attempt" -> (AttemptsBound - a) * AttemptSteps + 1 + After(ti)
    [] pc \in {"await", "hung"} -> (AttemptsBound - a) * AttemptSteps + After(ti)
    [] pc = "test" -> (AttemptsBound - a) * AttemptSteps - testIdx + After(ti)
    [] pc = "finish" -> 1 + After(ti)
    [] OTHER -> 0

\* every step of the run brings it nearer to its end, which is the only place
\* where nothing is left to do; a task takes at most k generation calls; a run
\* that ended on a valid dataset without a failed generation call has appended
\* one entry per task and written the summary
C28_Progress ==
  /\ [][Rank' < Rank]_runVars
  /\ []( /\ Rank >= 0
         /\ pc \in Final <=> Rank = 0
         /\ Len(codes) <= AttemptsBound
         /\ chatCalls <= Len(tasks) * AttemptsBound
         /\ (pc \in Final /\ chatErrors = 0 /\ ~Defective(tasks)) =>
              /\ pc = "done"
              /\ Len(file) = Len(tasks)
              /\ Len(summary) = 1 )

\* a test whose script never returns is cut off by the time limit and counted
\* as a failed verdict, and the next test follows
C28_CutOff ==
  [][(/\ pc = "test"
      /\ testIdx <= Len(tasks[ti].tests)
      /\ evalTest(tasks[ti].tests[testIdx], sandboxCtx(code, lastCtx)) = "hang") =>
       /\ pc' = "test"
       /\ testIdx' = testIdx + 1
       /\ verdicts' = Append(verdicts, [test |-> tasks[ti].tests[testIdx],
                                        pass |-> FALSE])
       /\ ~allPass']_runVars

\* the run is blocked only by a promise job that executed code left behind
C28_BlockedOnlyByJob == [](pc = "hung" => queued)

\* the run is never blocked
C28_NeverBlocked == [](pc # "hung")

\* C28: termination: every step of the run brings it nearer to its end, a task
\* takes at most k generation calls, the run that meets no failed generation
\* call ends with one entry per task and the summary, code that never returns
\* is cut off and counted as a failed verdict, and code that never returns
\* never blocks the tests, attempts and tasks that follow.
C28_Terminates ==
  /\ C28_Progress
  /\ C28_CutOff
  /\ C28_NeverBlocked

\* the code of an attempt left a promise job that never returns, and the run
\* is blocked at the generation call of the first task
C28_Blocked ==
  /\ pc = "hung"
  /\ queued
  /\ ti = 1
  /\ Len(file) = 0
  /\ Len(tasks) = 2

\* code that never returns was cut off in a test of the first task, and the run
\* ended with both entries and the summary
C28_CutOffReached ==
  /\ pc = "done"
  /\ \E x \in executed :
       x.result = "throw" /\ InSeq("spin", x.code) /\ x.test = "eq"
  /\ Len(file) = 2
  /\ Len(summary) = 1

====
